---- MODULE Spec2Model ----
(***************************************************************************)
(* Model of modelSED/sed.py: the SED class, which reads a lightcurve,      *)
(* bins it in time (get_mean_magnitudes) and fits every qualifying bin     *)
(* (fit_bins) or the whole lightcurve (fit_global).                        *)
(*                                                                         *)
(* Numbers.  Observation times are small integers.  The bin edges of       *)
(* np.linspace and the bin times are rationals; an edge is kept as its     *)
(* numerator over the common denominator nbins, a bin time as a reduced    *)
(* fraction <<numerator, denominator>>, so that the comparisons the code   *)
(* makes on floats (>=, <, ==) are made exactly.  For the times and bin    *)
(* counts of this model the float comparisons give the same answers.       *)
(*                                                                         *)
(* Columns.  A lightcurve row keeps obsmjd, telescope_band and bin; an     *)
(* aggregated row keeps telescope_band, wavelength, mean_obsmjd, entries.  *)
(* mag and mag_err (and their means) take no part in any decision of the   *)
(* code and are left out.  The field "src" of an aggregated row is a       *)
(* ghost: the bin (interval index, or bin label) the row was built from.   *)
(* The code never reads it; the properties do.                             *)
(*                                                                         *)
(* Inputs.  A lightcurve has at most MaxLen rows, in chronological order,  *)
(* with times in Times, bands in BandNames and bin labels in BinLabels.    *)
(* Every behaviour is one call on one SED object: Spec calls               *)
(* get_mean_magnitudes, SpecFit fit_bins, SpecGlobal fit_global, and       *)
(* SpecNew the constructor.                                                *)
(***************************************************************************)
EXTENDS Integers, Sequences, FiniteSets, TLC

\* ---------------------------------------------------------------- bounds
MaxLen == 3          \* rows of the lightcurve file
MaxNbins == 2        \* nbins is 1..MaxNbins

\* ------------------------------------------------------------ vocabulary
\* An optional argument is a set of at most one value: None is Python's
\* None (or a keyword that is not given), Some(v) the value v.
None == {}

Some(v) == {v}

Get(o) == CHOOSE v \in o : TRUE

allowed_fittype == {"powerlaw", "blackbody"}

Fittypes == allowed_fittype \cup {"gaussian"}

\* the wavelength table read from the instrument data (two known bands)
filter_wl == [b \in {"g", "r"} |-> IF b = "g" THEN 4722 ELSE 6340]

\* the band names a lightcurve row can carry; "x" is in no table
BandNames == {"g", "r", "x"}

\* the observation times and the predefined bin labels of a row
Times == 0..2

BinLabels == 0..1

Row == [obsmjd : Times, telescope_band : BandNames, bin : BinLabels]

\* A lightcurve file holds its rows in chronological order (rows of one
\* time in a fixed order of bin label and band).
BandRank == [b \in BandNames |-> IF b = "g" THEN 0 ELSE IF b = "r" THEN 1 ELSE 2]

RowKey(r) == (r.obsmjd * 10 + r.bin) * 10 + BandRank[r.telescope_band]

RECURSIVE ChronologicalSeqs(_)
ChronologicalSeqs(n) ==
    IF n = 0 THEN {<<>>}
    ELSE {Append(p[1], p[2]) :
            p \in {q \in ChronologicalSeqs(n - 1) \X Row :
                     q[1] = <<>> \/ RowKey(q[1][Len(q[1])]) <= RowKey(q[2])}}

Lightcurves == UNION {ChronologicalSeqs(n) : n \in 0..MaxLen}

\* --------------------------------------------------------------- helpers
Range(s) == {s[i] : i \in DOMAIN s}

Column(df, col) == [i \in DOMAIN df |-> df[i][col]]

\* numpy/pandas unique(): the distinct values in order of first appearance
RECURSIVE unique(_)
unique(s) ==
    IF s = <<>> THEN <<>>
    ELSE <<Head(s)>> \o unique(SelectSeq(Tail(s), LAMBDA x : x # Head(s)))

RECURSIVE SeqSum(_)
SeqSum(s) == IF s = <<>> THEN 0 ELSE Head(s) + SeqSum(Tail(s))

SeqMin(s) == CHOOSE x \in Range(s) : \A y \in Range(s) : x <= y

SeqMax(s) == CHOOSE x \in Range(s) : \A y \in Range(s) : x >= y

RECURSIVE GCD(_, _)
GCD(a, b) == IF b = 0 THEN a ELSE GCD(b, a % b)

\* the rational n/d (n >= 0, d > 0) in lowest terms
Frac(n, d) == <<n \div GCD(n, d), d \div GCD(n, d)>>

RECURSIVE Flatten(_)
Flatten(ss) == IF ss = <<>> THEN <<>> ELSE Head(ss) \o Flatten(Tail(ss))

\* ---------------------------------------------------- get_mean_magnitudes
\* np.linspace(mjd_min, mjd_max, num): the num edges, each times (num - 1)
linspace(mjd_min, mjd_max, num) ==
    [i \in 1..num |-> (num - 1) * mjd_min + (i - 1) * (mjd_max - mjd_min)]

\* lc[lc.telescope_band.isin(bands_to_fit)]
BandFilter(lc, bands_to_fit) ==
    SelectSeq(lc, LAMBDA r : r.telescope_band \in Range(bands_to_fit))

\* lc.query("obsmjd >= lo and obsmjd < hi"), lo and hi scaled by den
IntervalQuery(lc, lo, hi, den) ==
    SelectSeq(lc, LAMBDA r : r.obsmjd * den >= lo /\ r.obsmjd * den < hi)

\* self.filter_wl[telescope_band] raises KeyError for a band of no table
RaisesKeyError(df) == \E r \in Range(df) : r.telescope_band \notin DOMAIN filter_wl

\* the rows appended to temp_df for one bin: one per band present
BandRows(df, src, mean_obsmjd) ==
    LET tb == unique(Column(df, "telescope_band"))
    IN  [k \in DOMAIN tb |->
           [src |-> src,
            telescope_band |-> tb[k],
            wavelength |-> IF tb[k] \in DOMAIN filter_wl THEN filter_wl[tb[k]] ELSE 0,
            mean_obsmjd |-> mean_obsmjd,
            entries |-> Len(SelectSeq(df, LAMBDA r : r.telescope_band = tb[k]))]]

\* equal-width mode: every edge but the last opens a half-open interval
EqualWidthDfs(lc, mjd_iter) ==
    [index \in 1..(Len(mjd_iter) - 1) |->
        IntervalQuery(lc, mjd_iter[index], mjd_iter[index + 1], Len(mjd_iter) - 1)]

EqualWidthTable(dfs, mjd_iter) ==
    Flatten([index \in DOMAIN dfs |->
               BandRows(dfs[index], index - 1,
                        Frac(mjd_iter[index] + mjd_iter[index + 1],
                             2 * (Len(mjd_iter) - 1)))])

\* predefined mode: one group per value of the bin column
PredefinedDfs(lc) ==
    LET bins == unique(Column(lc, "bin"))
    IN  [k \in DOMAIN bins |-> SelectSeq(lc, LAMBDA r : r.bin = bins[k])]

PredefinedTable(dfs) ==
    Flatten([k \in DOMAIN dfs |->
               BandRows(dfs[k], dfs[k][1].bin,
                        Frac(SeqSum(Column(dfs[k], "obsmjd")), Len(dfs[k])))])

\* the criterion, had it asked for exactly min_bands_per_bin rows
QualifiesExactly(_df, min_bands_per_bin, neccessary_bands) ==
    /\ Len(_df) = min_bands_per_bin
    /\ Range(neccessary_bands) \subseteq Range(Column(_df, "telescope_band"))

\* the criterion of the qualification loop, on the rows of one mean_obsmjd
Qualifies(_df, min_bands_per_bin, neccessary_bands) ==
    /\ Len(_df) >= min_bands_per_bin
    /\ Range(neccessary_bands) \subseteq Range(Column(_df, "telescope_band"))

\* temp_df.query("mean_obsmjd == mjd")
MjdQuery(df, mjd) == SelectSeq(df, LAMBDA r : r.mean_obsmjd = mjd)

QualificationFilter(temp_df, min_bands_per_bin, neccessary_bands) ==
    LET mjds == unique(Column(temp_df, "mean_obsmjd"))
    IN  Flatten([k \in DOMAIN mjds |->
                   IF Qualifies(MjdQuery(temp_df, mjds[k]),
                                min_bands_per_bin, neccessary_bands)
                   THEN MjdQuery(temp_df, mjds[k])
                   ELSE <<>>])

\* list(self.filter_wl.keys())
filter_wl_keys == <<"g", "r">>

\* the defaults of the three optional arguments
BandsToFit(bands) == IF bands = None THEN filter_wl_keys ELSE Get(bands)

MinBandsDefault(min_bands_per_bin) ==
    IF min_bands_per_bin = None THEN 2 ELSE Get(min_bands_per_bin)

NeccessaryDefault(neccessary_bands) ==
    IF neccessary_bands = None THEN <<>> ELSE Get(neccessary_bands)

\* The whole method.  err is the exception that leaves it ("" for none):
\* np.min of an empty lightcurve, the wavelength lookup of an unknown band,
\* and the column access temp_df.mean_obsmjd of a table without rows.
get_mean_magnitudes(lc0, n, bands, min_bands_per_bin, neccessary_bands, bins_from_df) ==
    IF lc0 = <<>>
    THEN [err |-> "ValueError", temp_df |-> <<>>, result_df |-> <<>>]
    ELSE
    LET mjds     == Column(lc0, "obsmjd")
        mjd_iter == linspace(SeqMin(mjds), SeqMax(mjds), n + 1)
        flc      == BandFilter(lc0, BandsToFit(bands))
        dfs      == IF bins_from_df THEN PredefinedDfs(flc)
                                    ELSE EqualWidthDfs(flc, mjd_iter)
        temp     == IF bins_from_df THEN PredefinedTable(dfs)
                                    ELSE EqualWidthTable(dfs, mjd_iter)
    IN  IF \E k \in DOMAIN dfs : RaisesKeyError(dfs[k])
        THEN [err |-> "KeyError", temp_df |-> <<>>, result_df |-> <<>>]
        ELSE IF temp = <<>>
        THEN [err |-> "AttributeError", temp_df |-> temp, result_df |-> <<>>]
        ELSE [err |-> "", temp_df |-> temp,
              result_df |-> QualificationFilter(temp,
                                MinBandsDefault(min_bands_per_bin),
                                NeccessaryDefault(neccessary_bands))]

\* ------------------------------------------------------- fitting (fit.py)
\* FitSpectrum lives in fit.py.  Both models have two free parameters; a
\* fit of fewer rows than parameters is refused, any other fit may fail to
\* converge.
ParameterCount == 2

FitOutcomes(_df) ==
    IF Len(_df) < ParameterCount THEN {"FitConvergenceError"}
    ELSE {"ok", "FitConvergenceError"}

\* what fit_one_bin returns for the rows of one bin, kept as the bin time
\* and the number of rows it was given (the parameter values are not used)
FitResult(_df) == [mean_obsmjd |-> _df[1].mean_obsmjd, npoints |-> Len(_df)]

\* fit_global_parameters needs min_datapoints contributing measurements
GlobalOutcome(df, min_datapoints) ==
    IF SeqSum(Column(df, "entries")) < min_datapoints
    THEN "InsufficientDataError" ELSE "ok"

\* ------------------------------------------------------------ persistence
\* json.dump of a dict with integer keys: the keys become decimal strings
JsonDump(d) == {<<ToString(k), d[k]>> : k \in DOMAIN d}

\* ------------------------------------------------------------------ state
VARIABLES
    pc,            \* "new" | "ready" | "fitting" | "returned" | "raised"
    dirs,          \* the directories that exist, of "plots" and "fit"
    loaded,        \* what the constructor has read: "cmap", "filter_wl", "lc"
    lc,            \* self.lc
    nbins,         \* self.nbins
    fittype,       \* self.fittype
    call,          \* the method called and its arguments
    temp_df,       \* get_mean_magnitudes: the aggregated table
    result_df,     \* the table get_mean_magnitudes returned (binned_lc_df)
    fitparams,     \* fit_bins: the result mapping, keys 0, 1, ...
    index,         \* fit_bins: the number of bins fitted so far
    min_datapoints,\* fit_global: kwargs["min_datapoints"] at the global fit
    dumps,         \* the json.dump calls made, oldest first
    err            \* the exception that left the call, "" for none

vars == <<pc, dirs, loaded, lc, nbins, fittype, call, temp_df, result_df,
          fitparams, index, min_datapoints, dumps, err>>

BandsArgs == {None, Some(<<"g", "r">>), Some(<<"g", "x">>)}

MinBandsArgs == {None, Some(1), Some(2)}

NeccessaryArgs == {None, Some(<<"g">>)}

MinDatapointsArgs == {None, Some(1)}

NoCall ==
    /\ call = [op |-> "none"]
    /\ temp_df = <<>>
    /\ result_df = <<>>
    /\ fitparams = <<>>
    /\ index = 0
    /\ min_datapoints = None
    /\ dumps = <<>>
    /\ err = ""

\* before SED(...) is called
InitNew ==
    /\ pc = "new"
    /\ dirs \in SUBSET {"plots", "fit"}
    /\ loaded = {}
    /\ lc = <<>>
    /\ nbins = 0
    /\ fittype = ""
    /\ NoCall

\* a constructed SED object
Init ==
    /\ pc = "ready"
    /\ dirs = {"plots", "fit"}
    /\ loaded = {"cmap", "filter_wl", "lc"}
    /\ lc \in Lightcurves
    /\ nbins \in 1..MaxNbins
    /\ fittype = "powerlaw"
    /\ NoCall

\* ----------------------------------------------------------------- __init__
\* the check, had it accepted every name
FittypeAnything(f) == f # ""

\* fittype in allowed_fittype
FittypeAllowed(f) == f \in allowed_fittype

Construct ==
    /\ pc = "new"
    /\ \E f \in Fittypes, n \in 1..MaxNbins, file \in Lightcurves :
         /\ call' = [op |-> "__init__", fittype |-> f, nbins |-> n]
         /\ IF ~FittypeAllowed(f)
            THEN /\ pc' = "raised"
                 /\ err' = "Exception"
                 /\ UNCHANGED <<dirs, loaded, lc, nbins, fittype>>
            ELSE /\ pc' = "ready"
                 /\ err' = ""
                 /\ nbins' = n
                 /\ fittype' = f
                 /\ dirs' = dirs \cup {"plots", "fit"}
                 /\ loaded' = {"cmap", "filter_wl", "lc"}
                 /\ lc' = file
    /\ UNCHANGED <<temp_df, result_df, fitparams, index, min_datapoints, dumps>>

\* ------------------------------------------------------ get_mean_magnitudes
GetMeanMagnitudes ==
    /\ pc = "ready"
    /\ \E bands \in BandsArgs, m \in MinBandsArgs, nec \in NeccessaryArgs,
          bfd \in BOOLEAN :
         \E out \in {get_mean_magnitudes(lc, nbins, bands, m, nec, bfd)} :
             /\ call' = [op |-> "get_mean_magnitudes", bands |-> bands,
                         min_bands_per_bin |-> m, neccessary_bands |-> nec,
                         bins_from_df |-> bfd]
             /\ temp_df' = out.temp_df
             /\ result_df' = out.result_df
             /\ err' = out.err
             /\ pc' = IF out.err = "" THEN "returned" ELSE "raised"
    /\ UNCHANGED <<dirs, loaded, lc, nbins, fittype, fitparams, index,
                   min_datapoints, dumps>>

\* ------------------------------------------------------------------ fit_bins
\* the defaults fit_bins applies before it calls get_mean_magnitudes
FitBinsMinBands(bands, m) == IF m = None THEN Len(bands) ELSE Get(m)

FitBinsNeccessary(nec) == IF nec = None \/ nec = Some(<<>>) THEN <<>> ELSE Get(nec)

\* the bins of the returned table, in the order the loop visits them
BinTimes(df) == unique(Column(df, "mean_obsmjd"))

\* the loop, had the write been placed inside its body
LoopDoneAfterFirst(i, df) == i >= 1

\* the for loop over the bins has run out
LoopDone(i, df) == i = Len(BinTimes(df))

\* the call, up to the creation of the progress bar
FitBins ==
    /\ pc = "ready"
    /\ \E bands \in BandsArgs, m \in MinBandsArgs, nec \in NeccessaryArgs,
          bfd \in BOOLEAN :
         /\ call' = [op |-> "fit_bins", bands |-> bands,
                     min_bands_per_bin |-> m, neccessary_bands |-> nec,
                     bins_from_df |-> bfd]
         /\ IF bands = None
            THEN \* binned_lc_df is read before it is assigned
                 /\ pc' = "raised"
                 /\ err' = "UnboundLocalError"
                 /\ UNCHANGED <<temp_df, result_df>>
            ELSE \E out \in {get_mean_magnitudes(lc, nbins, bands,
                                Some(FitBinsMinBands(Get(bands), m)),
                                Some(FitBinsNeccessary(nec)), bfd)} :
                     /\ temp_df' = out.temp_df
                     /\ result_df' = out.result_df
                     /\ err' = IF out.err # "" THEN out.err
                               ELSE IF out.result_df = <<>> THEN "AttributeError"
                               ELSE ""
                     /\ pc' = IF out.err # "" \/ out.result_df = <<>>
                              THEN "raised" ELSE "fitting"
    /\ fitparams' = <<>>
    /\ index' = 0
    /\ UNCHANGED <<dirs, loaded, lc, nbins, fittype, min_datapoints, dumps>>

\* one turn of the loop: fit the next bin of the table
FitOneBin ==
    /\ pc = "fitting"
    /\ ~LoopDone(index, result_df)
    /\ LET _df == MjdQuery(result_df, BinTimes(result_df)[index + 1])
       IN  \E o \in FitOutcomes(_df) :
             IF o = "ok"
             THEN /\ fitparams' = [j \in 0..index |->
                                     IF j = index THEN FitResult(_df)
                                                  ELSE fitparams[j]]
                  /\ index' = index + 1
                  /\ UNCHANGED <<pc, err>>
             ELSE /\ pc' = "raised"
                  /\ err' = o
                  /\ UNCHANGED <<fitparams, index>>
    /\ UNCHANGED <<dirs, loaded, lc, nbins, fittype, call, temp_df, result_df,
                   min_datapoints, dumps>>

\* after the loop: write fit/<fittype>.json
WriteResults ==
    /\ pc = "fitting"
    /\ LoopDone(index, result_df)
    /\ dumps' = Append(dumps, [file |-> <<fittype, ".json">>,
                               data |-> JsonDump(fitparams)])
    /\ pc' = "returned"
    /\ UNCHANGED <<dirs, loaded, lc, nbins, fittype, call, temp_df, result_df,
                   fitparams, index, min_datapoints, err>>

\* ---------------------------------------------------------------- fit_global
FitGlobal ==
    /\ pc = "ready"
    /\ \E bands \in BandsArgs, md \in MinDatapointsArgs, bfd \in BOOLEAN :
         \* kw is kwargs["min_datapoints"] once the default is in; where
         \* len(None) raises there is no such value and kw is not used
         \E out \in {get_mean_magnitudes(lc, nbins, bands, None, None, bfd)},
            kw \in (IF md # None THEN md
                    ELSE IF bands # None THEN {Len(Get(bands))} ELSE {0}) :
             /\ call' = [op |-> "fit_global", bands |-> bands,
                         min_datapoints |-> md, bins_from_df |-> bfd]
             /\ temp_df' = out.temp_df
             /\ result_df' = out.result_df
             /\ IF out.err # ""
                THEN /\ err' = out.err
                     /\ pc' = "raised"
                     /\ UNCHANGED <<min_datapoints, dumps>>
                ELSE IF md = None /\ bands = None
                THEN \* len(None)
                     /\ err' = "TypeError"
                     /\ pc' = "raised"
                     /\ UNCHANGED <<min_datapoints, dumps>>
                ELSE /\ min_datapoints' = Some(kw)
                     /\ IF GlobalOutcome(out.result_df, kw) = "ok"
                        THEN /\ err' = ""
                             /\ pc' = "returned"
                             /\ dumps' = Append(dumps,
                                   [file |-> <<fittype, "_global.json">>,
                                    data |-> {<<"global", SeqSum(Column(out.result_df, "entries"))>>}])
                        ELSE /\ err' = GlobalOutcome(out.result_df, kw)
                             /\ pc' = "raised"
                             /\ UNCHANGED dumps
    /\ UNCHANGED <<dirs, loaded, lc, nbins, fittype, fitparams, index>>

\* ------------------------------------------------------------ specifications
Next == GetMeanMagnitudes

Spec == Init /\ [][Next]_vars

NextFit == FitBins \/ FitOneBin \/ WriteResults

SpecFit == Init /\ [][NextFit]_vars

NextGlobal == FitGlobal

SpecGlobal == Init /\ [][NextGlobal]_vars

NextNew == Construct

SpecNew == InitNew /\ [][NextNew]_vars

\* ================================================================ properties
\* the bins (interval index or bin label) that have rows in a table
Bins(df) == {df[i].src : i \in DOMAIN df}

OfBin(df, b) == SelectSeq(df, LAMBDA r : r.src = b)

BandsOf(df) == {df[i].telescope_band : i \in DOMAIN df}

\* C1: in equal-width mode every band-filtered measurement is counted in
\* exactly one bin: the entries of the aggregated table add up to the number
\* of band-filtered measurements (the one at the maximum time included).
C1_EveryMeasurementBinned ==
    (/\ call.op = "get_mean_magnitudes"
     /\ ~call.bins_from_df
     /\ pc = "returned")
    => SeqSum(Column(temp_df, "entries"))
         = Len(BandFilter(lc, BandsToFit(call.bands)))

\* C2: the rows of a bin are in the returned table exactly when the bin has
\* at least min_bands_per_bin distinct bands and every necessary band; the
\* rows of every other bin are absent.
C2_QualifiedExactly ==
    (call.op = "get_mean_magnitudes" /\ pc = "returned")
    => \A b \in Bins(temp_df) :
         IF /\ Cardinality(BandsOf(OfBin(temp_df, b)))
                 >= MinBandsDefault(call.min_bands_per_bin)
            /\ Range(NeccessaryDefault(call.neccessary_bands))
                 \subseteq BandsOf(OfBin(temp_df, b))
         THEN OfBin(result_df, b) = OfBin(temp_df, b)
         ELSE OfBin(result_df, b) = <<>>

\* C3: the failure of the fit of one bin does not leave fit_bins: no run of
\* fit_bins ends in the fit's exception.
C3_FitFailureContained ==
    (call.op = "fit_bins" /\ pc = "raised") => err # "FitConvergenceError"

\* C4: a run of fit_bins writes the results file at most once, only after
\* the fit of every bin of the table has been made, and what it writes is
\* the complete mapping; while bins are being fitted, and after a fit has
\* raised, nothing has been written.
C4_SingleCompleteWrite ==
    /\ Len(dumps) <= 1
    /\ Len(dumps) = 1 =>
         /\ pc = "returned"
         /\ index = Len(BinTimes(result_df))
         /\ DOMAIN fitparams = 0..(Len(BinTimes(result_df)) - 1)
         /\ dumps[1].data = JsonDump(fitparams)
         /\ Cardinality(dumps[1].data) = Len(BinTimes(result_df))

C4_Written ==
    /\ call.op = "fit_bins"
    /\ pc = "returned"
    /\ Len(dumps) = 1
    /\ index >= 1

\* C5: a constructor call with a fittype that is not allowed raises and
\* leaves the directories, the band tables and the lightcurve untouched.
C5_InvalidFittypeTouchesNothing ==
    [][(/\ pc = "new"
        /\ call'.op = "__init__"
        /\ call'.fittype \notin allowed_fittype)
       => (/\ pc' = "raised"
           /\ dirs' = dirs
           /\ loaded' = loaded
           /\ lc' = lc)]_vars

C5_Refused ==
    /\ call.op = "__init__"
    /\ call.fittype = "gaussian"
    /\ pc = "raised"
    /\ loaded = {}

\* C6: fit_bins without the bands keyword fits over all known bands: the
\* call gets its table from get_mean_magnitudes with bands = None and the
\* default of min_bands_per_bin, and a run that returns has written.
C6_DefaultBandsCompletes ==
    (call.op = "fit_bins" /\ call.bands = None)
    => /\ pc \in {"fitting", "returned"}
       /\ result_df = get_mean_magnitudes(lc, nbins, None,
                         call.min_bands_per_bin, call.neccessary_bands,
                         call.bins_from_df).result_df
       /\ pc = "returned" => Len(dumps) = 1

\* C7: fit_global without min_datapoints hands the number of bands being
\* fit to the global fit, whether or not the bands keyword is given.
C7_DefaultMinDatapoints ==
    (/\ call.op = "fit_global"
     /\ call.min_datapoints = None
     /\ err \notin {"ValueError", "KeyError", "AttributeError"})
    => /\ err # "TypeError"
       /\ min_datapoints = Some(Len(BandsToFit(call.bands)))

\* C8: a measurement in a band of no wavelength table never makes
\* get_mean_magnitudes raise, and the returned table has no row for it.
C8_UnknownBandExcluded ==
    call.op = "get_mean_magnitudes"
    => /\ err # "KeyError"
       /\ \A i \in DOMAIN result_df :
            result_df[i].telescope_band \in DOMAIN filter_wl

\* C9: the bins of the table returned for min_bands_per_bin = m are among
\* the bins of the table returned, for the same other arguments, for every
\* smaller value m1 >= 0 (and the call with m1 returns as well).
C9_MonotoneInMinBands ==
    (call.op = "get_mean_magnitudes" /\ pc = "returned")
    => \A m1 \in 0..(MinBandsDefault(call.min_bands_per_bin) - 1) :
         \A smaller \in {get_mean_magnitudes(lc, nbins, call.bands, Some(m1),
                            call.neccessary_bands, call.bins_from_df)} :
            /\ smaller.err = ""
            /\ Bins(result_df) \subseteq Bins(smaller.result_df)

C9_StrictlyFewer ==
    /\ call.op = "get_mean_magnitudes"
    /\ pc = "returned"
    /\ call.min_bands_per_bin = Some(2)
    /\ result_df # <<>>
    /\ Bins(result_df) #
         Bins(get_mean_magnitudes(lc, nbins, call.bands, Some(1),
                call.neccessary_bands, call.bins_from_df).result_df)

\* C10: the keys of the mapping of a completed fit_bins run are 0..k-1 for
\* the k bins of the table, and key j holds the fit of the j-th of these
\* bins in the order of the table.
C10_KeysArePositions ==
    (call.op = "fit_bins" /\ pc = "returned")
    => /\ DOMAIN fitparams = 0..(Len(unique(Column(result_df, "src"))) - 1)
       /\ \A j \in DOMAIN fitparams :
            fitparams[j] =
              FitResult(OfBin(result_df, unique(Column(result_df, "src"))[j + 1]))

====
